---- MODULE Spec2Model ----
(***************************************************************************)
(* Model of the transcriber worker of src/transcriber/main.py:             *)
(* TranscriberWorker.run polls the processing_jobs table, handles every    *)
(* fetched job with process_job and writes transcripts with an upsert.     *)
(*                                                                         *)
(* Modelling decisions, all taken from the source:                         *)
(*  - a worker is a sequential process; pc[w] is the statement of          *)
(*    run/process_job it executes next;                                    *)
(*  - a store statement (execute + commit) either takes effect and         *)
(*    returns, or raises and takes no effect ("error"); after it raised,   *)
(*    the rollback() of the except clause either returns or raises as      *)
(*    well ("rollback_error", e.g. on a closed connection);                *)
(*  - NOW() is a logical clock that advances with every committed UPDATE   *)
(*    of processing_jobs; datetime.now() reads the same clock;             *)
(*  - whisper's result always has the key 'text'; 'segments' and           *)
(*    'language' may be absent (the source reads them with .get);          *)
(*  - every job row references an existing audiobook row, so the JOIN of   *)
(*    get_pending_jobs drops no job.                                       *)
(***************************************************************************)
EXTENDS Integers, Sequences, FiniteSets, TLC

\* ------------------------------------------------------------------ bounds
NumJobs == 2          \* rows of processing_jobs when store writes may fail
NumPollJobs == 6      \* rows of processing_jobs in the runs about polling
MaxFaults == 2        \* store writes that may fail in one execution
NumSharedJobs == 1    \* rows of processing_jobs when two workers share the store

\* ------------------------------------------------------- program constants
Limit == 5                 \* LIMIT 5 of get_pending_jobs
DefaultConfidence == 95    \* 0.95, in hundredths
IdleSleep == 10
ErrorSleep == 30
IterationDelay == 5

NoTime == -1               \* SQL NULL in a timestamp column
NoMessage == "<null>"      \* SQL NULL / Python None in error_message

Terminal == {"completed", "failed"}
JobTypes == {"transcribe", "summarize"}

\* audiobooks table: id -> file_path (read-only for the worker)
Audiobooks == {1, 2}
FilePath(a) == IF a = 1 THEN "/audio/1.mp3" ELSE "/audio/2.mp3"

VARIABLES
    jobs,             \* processing_jobs: job id -> row
    transcripts,      \* transcripts: set of rows
    files,            \* the audio files that exist (read-only for the worker)
    now,              \* the store's clock
    faults,           \* store writes that may still fail
    flaky,            \* whether start-up steps and the SELECT may fail
    pc,               \* worker -> statement it executes next
    pending_jobs,     \* worker -> rows returned by the last get_pending_jobs
    idx,              \* worker -> position of the for loop in pending_jobs
    transcript_data,  \* worker -> <<>> or <<result of transcribe_audio>>
    err,              \* worker -> str(e) of the exception being handled
    calls,            \* worker -> calls made in the current process_job
    running_calls,    \* job id -> number of update_job_status(id,'running')
    slept             \* worker -> sleeps taken since the last get_pending_jobs

vars == <<jobs, transcripts, files, now, faults, flaky, pc, pending_jobs, idx,
          transcript_data, err, calls, running_calls, slept>>

Workers == DOMAIN pc
JobIds == DOMAIN jobs

\* ------------------------------------------------------------ the engine
Seg1 == [start |-> 0, end |-> 1, text |-> "hello world"]

\* What whisper's transcribe may return: a dict that may lack 'segments' and
\* 'language' (read with .get). The call may also raise.
EngineResults ==
    { [text |-> "draft"],
      [text |-> "final", segments |-> <<Seg1>>, language |-> "en"] }
\* int(time.time() - start_time) of a call that returned `result`
ElapsedOf(result) == IF "language" \in DOMAIN result THEN 3 ELSE 0

\* str(e) of the exceptions the worker can see
NotFoundMsg(file_path) == "Audio file not found: " \o file_path
EngineMsg == "engine error"
StoreMsg == "store error"
RollbackMsg == "connection already closed"

\* the dict transcribe_audio returns for an engine result that has 'text'
transcribe_audio_result(result, seconds) ==
    [ content |-> result.text,
      segments |-> IF "segments" \in DOMAIN result THEN result.segments ELSE <<>>,
      language |-> IF "language" \in DOMAIN result THEN result.language ELSE "unknown",
      processing_time_seconds |-> seconds ]

\* ------------------------------------------------------------- the store
\* the segments column: json.dumps(segments) if segments else None
SegmentsColumn(segments) ==
    IF segments # <<>> THEN [null |-> FALSE, json |-> segments]
                       ELSE [null |-> TRUE, json |-> <<>>]

\* an UPDATE of the terminal statuses that leaves error_message out
update_job_status_sql_no_message(js, job_id, status, error_message, t) ==
    IF job_id \notin DOMAIN js THEN js
    ELSE IF status = "running" THEN
        [js EXCEPT ![job_id].status = status, ![job_id].started_at = t]
    ELSE IF status \in {"completed", "failed"} THEN
        [js EXCEPT ![job_id].status = status, ![job_id].completed_at = t]
    ELSE js

\* an update_job_status whose terminal writes are lost
update_job_status_sql_running_only(js, job_id, status, error_message, t) ==
    IF job_id \notin DOMAIN js THEN js
    ELSE IF status = "running" THEN
        [js EXCEPT ![job_id].status = status, ![job_id].started_at = t]
    ELSE js

\* a compare-and-set claim: 'running' is written only over 'pending'
update_job_status_sql_if_pending(js, job_id, status, error_message, t) ==
    IF job_id \notin DOMAIN js THEN js
    ELSE IF status = "running" THEN
        IF js[job_id].status = "pending"
        THEN [js EXCEPT ![job_id].status = status, ![job_id].started_at = t]
        ELSE js
    ELSE IF status \in {"completed", "failed"} THEN
        [js EXCEPT ![job_id].status = status, ![job_id].completed_at = t,
                   ![job_id].error_message = error_message]
    ELSE js

\* effect of the UPDATE of update_job_status once committed, at store time t
update_job_status_sql(js, job_id, status, error_message, t) ==
    IF job_id \notin DOMAIN js THEN js
    ELSE IF status = "running" THEN
        [js EXCEPT ![job_id].status = status, ![job_id].started_at = t]
    ELSE IF status \in {"completed", "failed"} THEN
        [js EXCEPT ![job_id].status = status, ![job_id].completed_at = t,
                   ![job_id].error_message = error_message]
    ELSE js

\* uuid.uuid4(): an id no row has
FreshId(ts) == CHOOSE i \in 1..(Cardinality(ts) + 1) : \A r \in ts : r.id # i

\* the row save_transcript inserts
NewTranscript(ts, audiobook_id, data, t) ==
    [ id |-> FreshId(ts),
      audiobook_id |-> audiobook_id,
      content |-> data.content,
      segments |-> SegmentsColumn(data.segments),
      language |-> data.language,
      confidence_score |-> DefaultConfidence,
      processing_time_seconds |-> data.processing_time_seconds,
      created_at |-> t ]

\* an INSERT without the ON CONFLICT clause (and no unique constraint)
save_transcript_sql_insert_only(ts, audiobook_id, data, t) ==
    ts \cup { NewTranscript(ts, audiobook_id, data, t) }

\* effect of the INSERT ... ON CONFLICT (audiobook_id) DO UPDATE once committed
save_transcript_sql(ts, audiobook_id, data, t) ==
    IF \E r \in ts : r.audiobook_id = audiobook_id THEN
        { IF r.audiobook_id = audiobook_id
            THEN [r EXCEPT !.content = data.content,
                           !.segments = SegmentsColumn(data.segments),
                           !.language = data.language,
                           !.confidence_score = DefaultConfidence,
                           !.processing_time_seconds = data.processing_time_seconds]
            ELSE r : r \in ts }
    ELSE ts \cup { NewTranscript(ts, audiobook_id, data, t) }

\* the rows of the SELECT of get_pending_jobs: pj.* and ab.file_path
JobRow(js, j) ==
    [ id |-> j, job_type |-> js[j].job_type, status |-> js[j].status,
      audiobook_id |-> js[j].audiobook_id, created_at |-> js[j].created_at,
      file_path |-> FilePath(js[j].audiobook_id) ]

\* a WHERE clause without the status condition
PendingIds_any_status(js) ==
    { j \in DOMAIN js : js[j].job_type = "transcribe" }

\* WHERE pj.job_type = 'transcribe' AND pj.status = 'pending'
PendingIds(js) ==
    { j \in DOMAIN js : js[j].job_type = "transcribe" /\ js[j].status = "pending" }

\* ORDER BY pj.created_at ASC: every order of S that is ascending in created_at
\* (rows of equal created_at come in any order)
RECURSIVE OrderedBy(_, _)
OrderedBy(js, S) ==
    IF S = {} THEN { <<>> }
    ELSE UNION { { <<j>> \o rest : rest \in OrderedBy(js, S \ {j}) } :
                 j \in { m \in S : \A o \in S : js[m].created_at <= js[o].created_at } }

Min(a, b) == IF a <= b THEN a ELSE b

\* the first rows of `order`, LIMIT 5 applied
Fetched(js, order) ==
    [ i \in 1..Min(Limit, Len(order)) |-> JobRow(js, order[i]) ]

\* every order of the set S
RECURSIVE AnyOrder(_)
AnyOrder(S) ==
    IF S = {} THEN { <<>> }
    ELSE UNION { { <<j>> \o rest : rest \in AnyOrder(S \ {j}) } : j \in S }

\* the query without its ORDER BY clause
get_pending_jobs_sql_unordered(js) ==
    { Fetched(js, order) : order \in AnyOrder(PendingIds(js)) }

\* the lists cursor.fetchall() may return for the query, LIMIT 5 applied
get_pending_jobs_sql(js) ==
    { Fetched(js, order) : order \in OrderedBy(js, PendingIds(js)) }

\* ------------------------------------------------------------ initial state
\* Jobs are created by a collaborator, in status pending, before the worker's
\* first write. A fresh row has no started_at, completed_at, error_message.
NewJob(job_type, audiobook_id, created_at) ==
    [ job_type |-> job_type, status |-> "pending", audiobook_id |-> audiobook_id,
      created_at |-> created_at, started_at |-> NoTime, completed_at |-> NoTime,
      error_message |-> NoMessage ]

\* n transcription jobs, a newer job having the smaller id, for any audiobooks
\* (the first job's being audiobook 1)
InitJobs(n) ==
    { [ j \in 1..n |-> NewJob("transcribe", a[j], n - j) ] :
      a \in { f \in [1..n -> Audiobooks] : f[1] = 1 } }

\* n jobs on alternating audiobooks, the last one of either type; a job of
\* smaller id is newer, and up to `ties` jobs share a created_at
InitPollJobs(n) ==
    { [ j \in 1..n |-> NewJob(IF j = n THEN t ELSE "transcribe",
                              IF j % 2 = 1 THEN 1 ELSE 2, (n - j) \div ties) ] :
      t \in JobTypes, ties \in 1..2 }

AudioFiles == { FilePath(a) : a \in Audiobooks }

InitWorker(ws) ==
    /\ pc = [w \in ws |-> "connect_redis"]
    /\ pending_jobs = [w \in ws |-> <<>>]
    /\ idx = [w \in ws |-> 1]
    /\ transcript_data = [w \in ws |-> <<>>]
    /\ err = [w \in ws |-> NoMessage]
    /\ calls = [w \in ws |-> <<>>]
    /\ slept = [w \in ws |-> <<>>]

Init ==
    /\ jobs \in InitJobs(NumJobs)
    /\ transcripts = {}
    /\ files \in SUBSET AudioFiles
    /\ now = NumJobs
    /\ faults = MaxFaults
    /\ flaky = TRUE
    /\ running_calls = [j \in 1..NumJobs |-> 0]
    /\ InitWorker({1})

\* ----------------------------------------------------------------- helpers
\* the job the for loop of run has handed to process_job
Job(w) == pending_jobs[w][idx[w]]

\* outcomes of a store write: it commits, it raises and rollback() returns,
\* or it raises and rollback() raises too
WriteOutcomes == IF faults > 0 THEN {"ok", "error", "rollback_error"} ELSE {"ok"}

\* a record of one call of process_job: `arg` is the error_message passed (to
\* update_job_status), `error` the message of the exception inside the call,
\* `raised` the message of the exception the call left to process_job, and
\* `before` the transcripts of the job's audiobook when the call was made
Call(op, arg, result, error, raised, before) ==
    [op |-> op, arg |-> arg, result |-> result, error |-> error,
     raised |-> raised, before |-> before]

\* --------------------------------------------------------------- start-up
\* str(e) of the exception a start-up step re-raises
StartupMsg(step) ==
    CASE step = "connect_redis" -> "redis error"
      [] step = "connect_database" -> "database error"
      [] step = "load_whisper_model" -> "model error"

\* start-up steps whose except clause has no `raise`
startup_next_swallowed(step, ok) ==
    CASE step = "connect_redis" -> "connect_database"
      [] step = "connect_database" -> "load_whisper_model"
      [] step = "load_whisper_model" -> "get_pending_jobs"

\* self.connect_redis(); self.connect_database(); self.load_whisper_model():
\* each logs and re-raises its exception, which leaves run and ends the worker
startup_next(step, ok) ==
    IF ~ok THEN "terminated"
    ELSE CASE step = "connect_redis" -> "connect_database"
           [] step = "connect_database" -> "load_whisper_model"
           [] step = "load_whisper_model" -> "get_pending_jobs"

\* one start-up step of run
startup(w, step) ==
    /\ pc[w] = step
    /\ \E ok \in (IF flaky THEN BOOLEAN ELSE {TRUE}) :
         /\ pc' = [pc EXCEPT ![w] = startup_next(step, ok)]
         /\ err' = [err EXCEPT ![w] = IF ok THEN NoMessage ELSE StartupMsg(step)]
    /\ UNCHANGED <<jobs, transcripts, files, now, faults, flaky, pending_jobs, idx,
                   transcript_data, calls, running_calls, slept>>

connect_redis(w) == startup(w, "connect_redis")

connect_database(w) == startup(w, "connect_database")

load_whisper_model(w) == startup(w, "load_whisper_model")

\* ------------------------------------------------------------ the main loop
\* an empty batch that goes straight to the inter-iteration delay
after_fetch_no_idle(rows) ==
    IF Len(rows) > 0 THEN "for_job" ELSE "sleep_delay"

\* if pending_jobs: (the for loop) else: time.sleep(10)
after_fetch(rows) ==
    IF Len(rows) > 0 THEN "for_job" ELSE "sleep_idle"

\* pending_jobs = self.get_pending_jobs(); if pending_jobs: ... else: sleep(10)
\* The query returns its rows, or raises and get_pending_jobs returns [].
get_pending_jobs(w) ==
    /\ pc[w] = "get_pending_jobs"
    /\ \E rows \in get_pending_jobs_sql(jobs) \cup (IF flaky THEN { <<>> } ELSE {}) :
         /\ pending_jobs' = [pending_jobs EXCEPT ![w] = rows]
         /\ pc' = [pc EXCEPT ![w] = after_fetch(rows)]
    /\ idx' = [idx EXCEPT ![w] = 1]
    /\ slept' = [slept EXCEPT ![w] = <<>>]
    /\ UNCHANGED <<jobs, transcripts, files, now, faults, flaky, transcript_data, err,
                   calls, running_calls>>

\* for job in pending_jobs: self.process_job(job)
for_job(w) ==
    /\ pc[w] = "for_job"
    /\ IF idx[w] <= Len(pending_jobs[w])
         THEN /\ pc' = [pc EXCEPT ![w] = "update_running"]
              /\ calls' = [calls EXCEPT ![w] = <<>>]
              /\ transcript_data' = [transcript_data EXCEPT ![w] = <<>>]
              /\ err' = [err EXCEPT ![w] = NoMessage]
         ELSE /\ pc' = [pc EXCEPT ![w] = "sleep_delay"]
              /\ UNCHANGED <<calls, transcript_data, err>>
    /\ UNCHANGED <<jobs, transcripts, files, now, faults, flaky, pending_jobs, idx,
                   running_calls, slept>>

sleep_idle(w) ==
    /\ pc[w] = "sleep_idle"
    /\ pc' = [pc EXCEPT ![w] = "sleep_delay"]
    /\ slept' = [slept EXCEPT ![w] = Append(slept[w], IdleSleep)]
    /\ UNCHANGED <<jobs, transcripts, files, now, faults, flaky, pending_jobs, idx,
                   transcript_data, err, calls, running_calls>>

\* an except clause of run that ends with `continue`
sleep_error_continue(w) ==
    /\ pc[w] = "sleep_error"
    /\ pc' = [pc EXCEPT ![w] = "get_pending_jobs"]
    /\ slept' = [slept EXCEPT ![w] = Append(slept[w], ErrorSleep)]
    /\ UNCHANGED <<jobs, transcripts, files, now, faults, flaky, pending_jobs, idx,
                   transcript_data, err, calls, running_calls>>

\* except Exception as e: logger.error(...); time.sleep(30)
sleep_error(w) ==
    /\ pc[w] = "sleep_error"
    /\ pc' = [pc EXCEPT ![w] = "sleep_delay"]
    /\ slept' = [slept EXCEPT ![w] = Append(slept[w], ErrorSleep)]
    /\ UNCHANGED <<jobs, transcripts, files, now, faults, flaky, pending_jobs, idx,
                   transcript_data, err, calls, running_calls>>

sleep_delay(w) ==
    /\ pc[w] = "sleep_delay"
    /\ pc' = [pc EXCEPT ![w] = "get_pending_jobs"]
    /\ slept' = [slept EXCEPT ![w] = Append(slept[w], IterationDelay)]
    /\ UNCHANGED <<jobs, transcripts, files, now, faults, flaky, pending_jobs, idx,
                   transcript_data, err, calls, running_calls>>

\* -------------------------------------------------------------- process_job
\* Control flow of process_job: the statement that follows `step` when it
\* ended with `result`. A raise inside the try block goes to the except
\* clause (update_failed); a raise inside the except clause leaves
\* process_job and reaches the except clause of run (sleep_error). An
\* update_job_status whose write raised returns normally when its rollback
\* returned ("error").
process_job_flow(step, result) ==
    CASE step = "update_running" ->
            IF result = "rollback_error" THEN "update_failed" ELSE "check_file"
      [] step = "check_file" ->
            IF result = "ok" THEN "transcribe_audio" ELSE "update_failed"
      [] step = "transcribe_audio" ->
            IF result = "ok" THEN "save_transcript" ELSE "update_failed"
      [] step = "save_transcript" ->
            IF result = "ok" THEN "update_completed" ELSE "update_failed"
      [] step = "update_completed" ->
            IF result = "rollback_error" THEN "update_failed" ELSE "for_job"
      [] step = "update_failed" ->
            IF result = "rollback_error" THEN "sleep_error" ELSE "for_job"

\* a save_transcript that swallows its exception (its `raise` left out)
process_job_next_save_swallowed(step, result) ==
    IF step = "save_transcript" THEN "update_completed"
    ELSE process_job_flow(step, result)

\* a file check that logs the missing file and goes on
process_job_next_file_unchecked(step, result) ==
    IF step = "check_file" THEN "transcribe_audio"
    ELSE process_job_flow(step, result)

\* a missing file that ends process_job with no failed-status write
process_job_next_no_failed_mark(step, result) ==
    IF step = "check_file" /\ result # "ok" THEN "for_job"
    ELSE process_job_flow(step, result)

\* a run whose loop body has no try/except: the raise ends the process
process_job_next_loop_unguarded(step, result) ==
    IF step = "update_failed" /\ result = "rollback_error" THEN "terminated"
    ELSE process_job_flow(step, result)

process_job_next(step, result) == process_job_flow(step, result)

\* the exception a step leaves to its caller, as str(e)
Raised(step, result, own) ==
    IF result = "ok" THEN NoMessage
    ELSE IF result = "rollback_error" THEN RollbackMsg
    ELSE IF step \in {"update_running", "update_completed", "update_failed"}
         THEN NoMessage
    ELSE own

\* one statement of process_job: record the call, move on, keep the message
\* of an exception on its way to the except clause
Step(w, step, arg, result, own) ==
    LET next == process_job_next(step, result)
        raised == Raised(step, result, own)
        before == { r \in transcripts : r.audiobook_id = pending_jobs[w][idx[w]].audiobook_id }
    IN /\ calls' = [calls EXCEPT ![w] = Append(calls[w],
                         Call(step, arg, result, IF result = "ok" THEN NoMessage ELSE own,
                              raised, before))]
       /\ pc' = [pc EXCEPT ![w] = next]
       /\ idx' = [idx EXCEPT ![w] = IF next = "for_job" THEN idx[w] + 1 ELSE idx[w]]
       /\ err' = [err EXCEPT ![w] = IF next \in {"for_job", "sleep_error"} THEN NoMessage
                                     ELSE IF raised # NoMessage THEN raised
                                     ELSE err[w]]
       /\ faults' = IF result \in {"error", "rollback_error"}
                       /\ step \notin {"check_file", "transcribe_audio"}
                    THEN faults - 1 ELSE faults

\* self.update_job_status(job_id, 'running')
update_running(w) ==
    /\ pc[w] = "update_running"
    /\ \E result \in WriteOutcomes :
         /\ Step(w, "update_running", NoMessage, result, StoreMsg)
         /\ jobs' = IF result = "ok"
                    THEN update_job_status_sql(jobs, Job(w).id, "running", NoMessage, now)
                    ELSE jobs
         /\ now' = IF result = "ok" THEN now + 1 ELSE now
    /\ running_calls' = [running_calls EXCEPT ![Job(w).id] = @ + 1]
    /\ UNCHANGED <<transcripts, files, flaky, pending_jobs, transcript_data, slept>>

\* if not os.path.exists(file_path): raise FileNotFoundError(...)
check_file(w) ==
    /\ pc[w] = "check_file"
    /\ Step(w, "check_file", NoMessage,
            IF Job(w).file_path \in files THEN "ok" ELSE "error",
            NotFoundMsg(Job(w).file_path))
    /\ UNCHANGED <<jobs, transcripts, files, now, flaky, pending_jobs, transcript_data,
                   running_calls, slept>>

\* transcript_data = self.transcribe_audio(file_path)
transcribe_audio(w) ==
    /\ pc[w] = "transcribe_audio"
    /\ \E raises \in BOOLEAN, result \in EngineResults :
         IF raises
         THEN /\ Step(w, "transcribe_audio", NoMessage, "error", EngineMsg)
              /\ UNCHANGED transcript_data
         ELSE /\ Step(w, "transcribe_audio", NoMessage, "ok", NoMessage)
              /\ transcript_data' = [transcript_data EXCEPT ![w] =
                     << transcribe_audio_result(result, ElapsedOf(result)) >>]
    /\ UNCHANGED <<jobs, transcripts, files, now, flaky, pending_jobs, running_calls, slept>>

\* self.save_transcript(audiobook_id, transcript_data)
save_transcript(w) ==
    /\ pc[w] = "save_transcript"
    /\ \E result \in WriteOutcomes :
         /\ Step(w, "save_transcript", NoMessage, result, StoreMsg)
         /\ transcripts' = IF result = "ok"
                           THEN save_transcript_sql(transcripts, Job(w).audiobook_id,
                                                    transcript_data[w][1], now)
                           ELSE transcripts
    /\ UNCHANGED <<jobs, files, now, flaky, pending_jobs, transcript_data, running_calls, slept>>

\* self.update_job_status(job_id, 'completed')
update_completed(w) ==
    /\ pc[w] = "update_completed"
    /\ \E result \in WriteOutcomes :
         /\ Step(w, "update_completed", NoMessage, result, StoreMsg)
         /\ jobs' = IF result = "ok"
                    THEN update_job_status_sql(jobs, Job(w).id, "completed", NoMessage, now)
                    ELSE jobs
         /\ now' = IF result = "ok" THEN now + 1 ELSE now
    /\ transcript_data' = [transcript_data EXCEPT ![w] = <<>>]
    /\ UNCHANGED <<transcripts, files, flaky, pending_jobs,
                   running_calls, slept>>

\* except Exception as e: self.update_job_status(job_id, 'failed', str(e))
update_failed(w) ==
    /\ pc[w] = "update_failed"
    /\ \E result \in WriteOutcomes :
         /\ Step(w, "update_failed", err[w], result, StoreMsg)
         /\ jobs' = IF result = "ok"
                    THEN update_job_status_sql(jobs, Job(w).id, "failed", err[w], now)
                    ELSE jobs
         /\ now' = IF result = "ok" THEN now + 1 ELSE now
    /\ transcript_data' = [transcript_data EXCEPT ![w] = <<>>]
    /\ UNCHANGED <<transcripts, files, flaky, pending_jobs,
                   running_calls, slept>>

\* ------------------------------------------------------------ specification
Next ==
    \/ \E w \in Workers : connect_redis(w)
    \/ \E w \in Workers : connect_database(w)
    \/ \E w \in Workers : load_whisper_model(w)
    \/ \E w \in Workers : get_pending_jobs(w)
    \/ \E w \in Workers : for_job(w)
    \/ \E w \in Workers : update_running(w)
    \/ \E w \in Workers : check_file(w)
    \/ \E w \in Workers : transcribe_audio(w)
    \/ \E w \in Workers : save_transcript(w)
    \/ \E w \in Workers : update_completed(w)
    \/ \E w \in Workers : update_failed(w)
    \/ \E w \in Workers : sleep_idle(w)
    \/ \E w \in Workers : sleep_delay(w)
    \/ \E w \in Workers : sleep_error(w)

Spec == Init /\ [][Next]_vars

\* The worker is one sequential process whose statements all return (the
\* sleeps included), so it always takes its next step.
SpecFair == Init /\ [][Next]_vars /\ WF_vars(Next)

\* The runs about polling: more pending jobs than one query returns, and a
\* store whose writes succeed.
InitPoll ==
    /\ jobs \in InitPollJobs(NumPollJobs)
    /\ transcripts = {}
    /\ files = { FilePath(1) }
    /\ now = NumPollJobs
    /\ faults = 0
    /\ flaky = TRUE
    /\ running_calls = [j \in 1..NumPollJobs |-> 0]
    /\ InitWorker({1})

\* no write fails, so the except clause of run (sleep_error) is never entered
NextPoll ==
    \/ \E w \in Workers : connect_redis(w)
    \/ \E w \in Workers : connect_database(w)
    \/ \E w \in Workers : load_whisper_model(w)
    \/ \E w \in Workers : get_pending_jobs(w)
    \/ \E w \in Workers : for_job(w)
    \/ \E w \in Workers : update_running(w)
    \/ \E w \in Workers : check_file(w)
    \/ \E w \in Workers : transcribe_audio(w)
    \/ \E w \in Workers : save_transcript(w)
    \/ \E w \in Workers : update_completed(w)
    \/ \E w \in Workers : update_failed(w)
    \/ \E w \in Workers : sleep_idle(w)
    \/ \E w \in Workers : sleep_delay(w)

SpecPoll == InitPoll /\ [][NextPoll]_vars

\* The same runs with a store and start-up steps that never fail, and a
\* worker that always takes its next step (every statement returns: the
\* engine call returns or raises, the sleeps end).
InitLive ==
    /\ jobs \in InitPollJobs(NumPollJobs)
    /\ transcripts = {}
    /\ files = { FilePath(1) }
    /\ now = NumPollJobs
    /\ faults = 0
    /\ flaky = FALSE
    /\ running_calls = [j \in 1..NumPollJobs |-> 0]
    /\ InitWorker({1})

SpecLive == InitLive /\ [][NextPoll]_vars /\ WF_vars(NextPoll)

\* Two worker processes started against the same store (each runs main()),
\* with a store whose operations all succeed.
InitTwo ==
    /\ jobs \in InitJobs(NumSharedJobs)
    /\ transcripts = {}
    /\ files \in SUBSET { FilePath(1) }
    /\ now = NumSharedJobs
    /\ faults = 0
    /\ flaky = FALSE
    /\ running_calls = [j \in 1..NumSharedJobs |-> 0]
    /\ InitWorker({1, 2})

SpecTwo == InitTwo /\ [][NextPoll]_vars

\* ==================================================================== claims
Ops(w) == { calls[w][i].op : i \in 1..Len(calls[w]) }
JobStep == {"update_running", "check_file", "transcribe_audio", "save_transcript"}
InProcessJob(w) ==
    pc[w] \in JobStep \cup {"update_completed", "update_failed"}

\* C1: the stored status of a job only ever moves pending -> running,
\* running -> completed or running -> failed, also when a store write fails;
\* in particular it never goes from pending directly to completed or failed.
C1_StatusSequence ==
    [][ \A j \in JobIds :
          jobs'[j].status # jobs[j].status =>
            << jobs[j].status, jobs'[j].status >> \in
                { <<"pending", "running">>, <<"running", "completed">>,
                  <<"running", "failed">> } ]_vars

\* C2: every job whose stored status is completed has a transcript row of its
\* audiobook; update_job_status(job, 'completed') is called only after the
\* save_transcript of the same handling returned without raising, and after a
\* save_transcript that raised the handler calls update_job_status(job,
\* 'failed') next and never update_job_status(job, 'completed').
C2_CompletedHasTranscript ==
    /\ \A j \in JobIds :
         jobs[j].status = "completed" =>
           \E r \in transcripts : r.audiobook_id = jobs[j].audiobook_id
    /\ \A w \in Workers : \A i \in 1..Len(calls[w]) :
         /\ calls[w][i].op = "update_completed" =>
              /\ i > 1
              /\ calls[w][i - 1].op = "save_transcript"
              /\ calls[w][i - 1].result = "ok"
         /\ (calls[w][i].op = "save_transcript" /\ calls[w][i].result # "ok") =>
              /\ "update_completed" \notin Ops(w)
              /\ IF i = Len(calls[w]) THEN pc[w] = "update_failed"
                 ELSE calls[w][i + 1].op = "update_failed"

\* C2 witness: one job is stored completed, and in the handling of another
\* job save_transcript raised and the job was then marked failed
C2_Witness ==
    \E w \in Workers : \E j \in JobIds : \E i \in 1..Len(calls[w]) :
        /\ jobs[j].status = "completed"
        /\ calls[w][i].op = "save_transcript" /\ calls[w][i].result # "ok"
        /\ i < Len(calls[w])
        /\ calls[w][i + 1].result = "ok"
        /\ \E k \in JobIds : k # j /\ jobs[k].status = "failed"

\* C3: when a step of process_job fails (the write that marks the job running,
\* the file check, the engine call or save_transcript), no later step of the
\* job is performed: the next call is update_job_status(job, 'failed', message)
\* with the message of the error.
C3_FailureGoesToFailed ==
    \A w \in Workers : \A i \in 1..Len(calls[w]) :
        (calls[w][i].op \in JobStep /\ calls[w][i].result # "ok") =>
            IF i = Len(calls[w])
            THEN InProcessJob(w) => (pc[w] = "update_failed" /\ err[w] # NoMessage)
            ELSE /\ calls[w][i + 1].op = "update_failed"
                 /\ calls[w][i + 1].arg \in {calls[w][i].error, calls[w][i].raised}
                 /\ calls[w][i + 1].arg # NoMessage

\* C4: a failure while handling one job never aborts the batch: when the loop
\* iteration is over (the worker is at one of its sleeps), every job of the
\* fetched batch has been passed to process_job.
C4_BatchNeverAborted ==
    \A w \in Workers :
        pc[w] \in {"sleep_idle", "sleep_error", "sleep_delay"} =>
            idx[w] >= Len(pending_jobs[w])

\* C5: the transcripts table holds at most one row per audiobook id, and when
\* a save_transcript has returned (the worker is about to mark the job
\* completed) exactly one row exists for the job's audiobook, holding the
\* content, segments, language, confidence score and processing time of that
\* call, whether or not a row of an earlier call was there.
C5_UpsertOneRow ==
    /\ \A r1, r2 \in transcripts : r1.audiobook_id = r2.audiobook_id => r1 = r2
    /\ \A w \in Workers :
         pc[w] = "update_completed" =>
           LET data == transcript_data[w][1]
               rows == { r \in transcripts : r.audiobook_id = Job(w).audiobook_id }
           IN /\ Cardinality(rows) = 1
              /\ \A r \in rows :
                   /\ r.content = data.content
                   /\ r.segments = (IF data.segments = <<>>
                                    THEN [null |-> TRUE, json |-> <<>>]
                                    ELSE [null |-> FALSE, json |-> data.segments])
                   /\ r.language = data.language
                   /\ r.confidence_score = DefaultConfidence
                   /\ r.processing_time_seconds = data.processing_time_seconds

\* C5 witness: a second save_transcript for an audiobook has returned, with a
\* content other than the one the first call stored
C5_Witness ==
    \E w \in Workers :
        /\ pc[w] = "update_completed"
        /\ \E r \in calls[w][Len(calls[w])].before :
             r.content # transcript_data[w][1].content

\* C6: a job's error_message is non-null exactly when its stored status is
\* failed: a write that marks a job completed stores a null error_message, one
\* that marks it failed stores a non-null one, and one that marks it running
\* leaves the error_message as it was.
C6_ErrorMessageIffFailed ==
    [][ \A j \in JobIds :
          /\ (jobs'[j].error_message # NoMessage) <=> (jobs'[j].status = "failed")
          /\ jobs'[j] # jobs[j] =>
               CASE jobs'[j].status = "running" ->
                        jobs'[j].error_message = jobs[j].error_message
                 [] jobs'[j].status = "completed" ->
                        jobs'[j].error_message = NoMessage
                 [] jobs'[j].status = "failed" ->
                        jobs'[j].error_message # NoMessage
                 [] OTHER -> FALSE
      ]_vars

\* C6 witness: one job is stored failed with its message and another one is
\* stored completed
C6_Witness ==
    \E j, k \in JobIds :
        /\ jobs[j].status = "failed" /\ jobs[j].error_message # NoMessage
        /\ jobs[k].status = "completed" /\ jobs[k].error_message = NoMessage

\* C7: the transcripts table changes only in the save_transcript call of a
\* handling whose file check and engine call succeeded; a handling makes at
\* most one save_transcript call, makes it right after a successful
\* transcription, and makes none when the file is missing or the engine raised.
C7_TranscriptsOnlyBySave ==
    [][ /\ transcripts' # transcripts =>
             \E w \in Workers :
                 /\ pc[w] = "save_transcript"
                 /\ Len(calls[w]) = 3
                 /\ calls[w][2].op = "check_file" /\ calls[w][2].result = "ok"
                 /\ calls[w][3].op = "transcribe_audio" /\ calls[w][3].result = "ok"
                 /\ calls'[w][4].op = "save_transcript"
        /\ \A w \in Workers :
             LET cs == calls'[w]
                 saves == { i \in 1..Len(cs) : cs[i].op = "save_transcript" }
             IN /\ Cardinality(saves) <= 1
                /\ \A i \in 1..Len(cs) :
                     /\ (cs[i].op = "transcribe_audio" /\ cs[i].result = "ok") =>
                          IF i = Len(cs) THEN pc'[w] = "save_transcript"
                          ELSE cs[i + 1].op = "save_transcript"
                     /\ (cs[i].op \in {"check_file", "transcribe_audio"}
                           /\ cs[i].result # "ok") => saves = {}
      ]_vars

\* C7 witness: a job whose audio file is missing has been handled to its end
\* while the table holds the transcript an earlier job saved
C7_Witness ==
    \E w \in Workers :
        /\ pc[w] = "for_job"
        /\ \E i \in 1..Len(calls[w]) :
             calls[w][i].op = "check_file" /\ calls[w][i].result = "error"
        /\ transcripts # {}

\* C8: the worker calls update_job_status(job, 'completed' or 'failed') only
\* after an update_job_status(job, 'running') of the same handling, and calls
\* update_job_status(job, 'running') at most once for any job, also when
\* store writes fail.
C8_RunningOncePerJob ==
    /\ \A j \in JobIds : running_calls[j] <= 1
    /\ \A w \in Workers : \A i \in 1..Len(calls[w]) :
         calls[w][i].op \in {"update_completed", "update_failed"} =>
             (i > 1 /\ calls[w][1].op = "update_running")

\* C9: once a job is stored completed or failed, no step of the worker changes
\* its row, no later query returns it and process_job is not started for it.
C9_TerminalIsFinal ==
    [][ \A j \in JobIds :
          jobs[j].status \in Terminal =>
            /\ jobs'[j] = jobs[j]
            /\ \A w \in Workers :
                 /\ pc[w] = "get_pending_jobs" =>
                      \A i \in 1..Len(pending_jobs'[w]) : pending_jobs'[w][i].id # j
                 /\ (pc[w] = "for_job" /\ pc'[w] = "update_running") =>
                      pending_jobs[w][idx[w]].id # j
      ]_vars

\* C9 witness: a job is terminal and the worker is handling a batch fetched
\* afterwards (one that does not contain it)
C9_Witness ==
    \E w \in Workers : \E j \in JobIds :
        /\ jobs[j].status \in Terminal
        /\ pc[w] = "update_running"
        /\ \A i \in 1..Len(pending_jobs[w]) : pending_jobs[w][i].id # j

\* what C10 asks of the list b returned for the table js
GoodBatch(b, js) ==
    LET ids == { b[i].id : i \in 1..Len(b) }
        left == { j \in DOMAIN js : /\ js[j].job_type = "transcribe"
                                     /\ js[j].status = "pending"
                                     /\ j \notin ids }
    IN /\ Len(b) <= 5
       /\ Cardinality(ids) = Len(b)
       /\ \A i \in 1..Len(b) :
            /\ b[i].id \in DOMAIN js
            /\ b[i].job_type = "transcribe" /\ js[b[i].id].job_type = "transcribe"
            /\ b[i].status = "pending" /\ js[b[i].id].status = "pending"
            /\ b[i].created_at = js[b[i].id].created_at
            /\ \A k \in i..Len(b) : b[i].created_at <= b[k].created_at
            /\ \A j \in left : b[i].created_at <= js[j].created_at
       /\ (\A j \in DOMAIN js : ~(js[j].job_type = "transcribe" /\ js[j].status = "pending"))
            => Len(b) = 0

\* C10: get_pending_jobs returns at most 5 jobs, each a transcribe job stored
\* pending at the time of the query, oldest first, none newer than a pending
\* job left out, the empty list when there is none, and it changes no job and
\* no transcript.
C10_PendingBatch ==
    [][ \A w \in Workers :
          pc[w] = "get_pending_jobs" =>
            /\ jobs' = jobs
            /\ transcripts' = transcripts
            /\ GoodBatch(pending_jobs'[w], jobs)
      ]_vars

\* C10 witness: a query has just returned 5 jobs and left a pending one out,
\* while other jobs are no longer pending
C10_Witness ==
    \E w \in Workers :
        /\ pc[w] = "for_job" /\ idx[w] = 1
        /\ Len(pending_jobs[w]) = 5
        /\ \E j \in JobIds :
             /\ jobs[j].status = "pending" /\ jobs[j].job_type = "transcribe"
             /\ \A i \in 1..5 : pending_jobs[w][i].id # j
        /\ \A i \in 1..5 : jobs[pending_jobs[w][i].id].status = "pending"

\* C11: when get_pending_jobs returned an empty batch, the iteration hands no
\* job to process_job, makes no engine call and no store write: the worker
\* goes to the idle sleep, then to the inter-iteration delay, and the idle
\* sleep has been taken when the next get_pending_jobs call is made.
C11_EmptyBatchIdles ==
    [][ \A w \in Workers :
          /\ (pc[w] = "get_pending_jobs" /\ Len(pending_jobs'[w]) = 0) =>
                pc'[w] = "sleep_idle"
          /\ (Len(pending_jobs[w]) = 0 /\ pc[w] \in {"sleep_idle", "sleep_delay"}) =>
                /\ jobs' = jobs /\ transcripts' = transcripts /\ now' = now
                /\ calls' = calls /\ running_calls' = running_calls
                /\ transcript_data' = transcript_data
                /\ pc'[w] = (IF pc[w] = "sleep_idle" THEN "sleep_delay"
                             ELSE "get_pending_jobs")
                /\ Len(slept'[w]) >= 1 /\ slept'[w][1] = IdleSleep
      ]_vars

\* C11 witness: a query returned nothing, and the worker is back at
\* get_pending_jobs after the idle sleep and the delay
C11_Witness ==
    \E w \in Workers :
        /\ pc[w] = "get_pending_jobs"
        /\ Len(pending_jobs[w]) = 0
        /\ slept[w] = <<IdleSleep, IterationDelay>>
        /\ \E j \in JobIds : jobs[j].status \in Terminal

\* C12: with two workers on one store, claiming a job is not mutually
\* exclusive: a worker's query returns every pending transcribe job (up to
\* the limit) whether or not the other worker holds it in its batch, and a
\* worker's mark-running write always takes effect, whatever the status the
\* other worker has given the job meanwhile. The witness is the interleaving
\* in which both workers fetched the same pending job, both marked it
\* running and both run the pipeline for it.
C12_ClaimNotExclusive ==
    [][ \A w \in Workers :
          /\ (pc[w] = "get_pending_jobs" /\ pc'[w] # "get_pending_jobs"
                /\ Cardinality(PendingIds(jobs)) <= Limit) =>
                { pending_jobs'[w][i].id : i \in 1..Len(pending_jobs'[w]) }
                    = PendingIds(jobs)
          /\ (pc[w] = "update_running" /\ pc'[w] = "check_file") =>
                /\ jobs'[Job(w).id].status = "running"
                /\ jobs'[Job(w).id].started_at = now
      ]_vars

\* C12 witness: both workers hold the same job, each has marked it running,
\* and both are in the pipeline for it
C12_Witness ==
    /\ Workers = {1, 2}
    /\ pc[1] = "transcribe_audio" /\ pc[2] = "transcribe_audio"
    /\ Job(1).id = Job(2).id
    /\ Job(1).status = "pending" /\ Job(2).status = "pending"
    /\ running_calls[Job(1).id] = 2
    /\ \A w \in Workers : \E i \in 1..Len(calls[w]) :
           calls[w][i].op = "update_running" /\ calls[w][i].result = "ok"
    /\ jobs[Job(1).id].status = "running"

\* the statements of the while True loop of run
LoopPcs ==
    {"get_pending_jobs", "for_job", "update_running", "check_file",
     "transcribe_audio", "save_transcript", "update_completed", "update_failed",
     "sleep_idle", "sleep_error", "sleep_delay"}

\* C13: once the loop has started no error inside an iteration ends it: the
\* worker never leaves the loop statements, an exception that leaves
\* process_job (raised by the rollback of the failed-status write) takes the
\* worker to the error-backoff sleep, that sleep is followed by the delay,
\* and a later get_pending_jobs call always follows.
C13_LoopSurvivesErrors ==
    /\ [][ \A w \in Workers :
             /\ pc[w] \in LoopPcs => pc'[w] \in LoopPcs
             /\ (pc[w] = "update_failed" /\ pc'[w] # "update_failed"
                   /\ calls'[w][Len(calls'[w])].result = "rollback_error") =>
                   pc'[w] = "sleep_error"
             /\ (pc[w] = "sleep_error" /\ pc'[w] # "sleep_error") =>
                   pc'[w] = "sleep_delay" /\ slept'[w] = <<ErrorSleep>>
         ]_vars
    /\ (\E w \in Workers : pc[w] = "sleep_error")
          ~> (\E w \in Workers : pc[w] = "get_pending_jobs")

\* C13 witness: an exception left process_job in the middle of a batch, and
\* the worker is back at get_pending_jobs after the error-backoff sleep
C13_Witness ==
    \E w \in Workers :
        /\ pc[w] = "get_pending_jobs"
        /\ Len(slept[w]) >= 1 /\ slept[w][1] = ErrorSleep
        /\ Len(calls[w]) >= 1
        /\ calls[w][Len(calls[w])].op = "update_failed"
        /\ calls[w][Len(calls[w])].result = "rollback_error"

\* C14: between two consecutive get_pending_jobs calls of a worker the
\* inter-iteration delay is taken exactly once, as the last sleep: alone when
\* the batch was handled, after the idle sleep when the batch was empty, and
\* after the error-backoff sleep when an exception left the iteration body.
C14_DelayOncePerIteration ==
    [][ \A w \in Workers :
          /\ (pc'[w] = "get_pending_jobs"
                /\ pc[w] \notin {"get_pending_jobs", "load_whisper_model"}) =>
                /\ pc[w] = "sleep_delay"
                /\ slept'[w] =
                     (IF Len(pending_jobs[w]) = 0 THEN <<IdleSleep, IterationDelay>>
                      ELSE IF idx[w] <= Len(pending_jobs[w])
                           THEN <<ErrorSleep, IterationDelay>>
                      ELSE <<IterationDelay>>)
          /\ (pc[w] # "get_pending_jobs" /\ slept'[w] # slept[w]) =>
                /\ Len(slept'[w]) = Len(slept[w]) + 1
                /\ SubSeq(slept'[w], 1, Len(slept[w])) = slept[w]
      ]_vars

\* C14 witness: the three outcomes of an iteration, each back at
\* get_pending_jobs: here the one that ended in the except clause of run
C14_Witness ==
    \E w \in Workers :
        /\ pc[w] = "get_pending_jobs"
        /\ idx[w] <= Len(pending_jobs[w])
        /\ slept[w] = <<ErrorSleep, IterationDelay>>

\* the statements of run before the while True loop
StartupPcs == {"connect_redis", "connect_database", "load_whisper_model"}

\* C15: the worker reads and writes no job before the Redis check, the
\* database connection and the model load have succeeded, in that order;
\* when one of them fails the worker terminates with that error, and a
\* terminated worker never enters the polling loop.
C15_StartupBeforeLoop ==
    [][ \A w \in Workers :
          /\ pc[w] \in StartupPcs \cup {"terminated"} =>
                /\ jobs' = jobs /\ transcripts' = transcripts
                /\ pending_jobs'[w] = <<>> /\ calls'[w] = <<>>
                /\ running_calls' = running_calls
          /\ (pc[w] \in StartupPcs /\ pc'[w] # pc[w]) =>
                IF err'[w] = NoMessage
                THEN pc'[w] = (CASE pc[w] = "connect_redis" -> "connect_database"
                                 [] pc[w] = "connect_database" -> "load_whisper_model"
                                 [] pc[w] = "load_whisper_model" -> "get_pending_jobs")
                ELSE pc'[w] = "terminated" /\ err'[w] = StartupMsg(pc[w])
          /\ (pc[w] \in StartupPcs /\ err'[w] # NoMessage) => pc'[w] = "terminated"
          /\ pc[w] = "terminated" => pc'[w] = "terminated" /\ err'[w] = err[w]
          /\ (pc'[w] \in LoopPcs /\ pc[w] \notin LoopPcs) =>
                pc[w] = "load_whisper_model" /\ pc'[w] = "get_pending_jobs"
      ]_vars

\* C15 witness: the Redis check and the database connection succeeded, the
\* model load failed, and the worker has terminated with no job touched
C15_Witness ==
    \E w \in Workers :
        /\ pc[w] = "terminated"
        /\ err[w] = StartupMsg("load_whisper_model")
        /\ \A j \in JobIds : jobs[j].status = "pending"

\* C16: whenever process_job has returned for a job, the stored status of
\* that job is completed or failed (never pending or running), also in
\* executions in which a status write fails.
C16_HandledJobIsTerminal ==
    \A w \in Workers :
        (pc[w] = "for_job" /\ idx[w] > 1) =>
            jobs[pending_jobs[w][idx[w] - 1].id].status \in Terminal

\* C17: in every reachable state of a single-worker execution, failing store
\* writes included, started_at is set for every job whose status is running,
\* completed or failed, completed_at is set exactly for the completed and
\* failed jobs, and created_at <= started_at <= completed_at where set.
C17_Timestamps ==
    \A j \in JobIds :
        /\ jobs[j].status \in {"running"} \cup Terminal => jobs[j].started_at # NoTime
        /\ jobs[j].completed_at # NoTime <=> jobs[j].status \in Terminal
        /\ jobs[j].started_at # NoTime => jobs[j].created_at <= jobs[j].started_at
        /\ (jobs[j].started_at # NoTime /\ jobs[j].completed_at # NoTime) =>
              jobs[j].started_at <= jobs[j].completed_at

\* C18: within one worker the handling steps of different jobs never
\* interleave: the handling of a job starts only after the terminal status
\* write call (completed or failed) of the job handled before it has ended,
\* and the jobs of a batch are handled one after the other in the order
\* get_pending_jobs returned them, oldest created_at first.
C18_OneJobAtATime ==
    [][ \A w \in Workers :
          /\ (pc[w] = "for_job" /\ pc'[w] = "update_running") =>
                /\ calls[w] = <<>> \/
                     calls[w][Len(calls[w])].op \in {"update_completed", "update_failed"}
                /\ calls'[w] = <<>>
                /\ idx'[w] = idx[w]
                /\ idx[w] > 1 =>
                     pending_jobs[w][idx[w] - 1].created_at <= Job(w).created_at
          /\ idx'[w] # idx[w] =>
                \/ pc[w] = "get_pending_jobs" /\ idx'[w] = 1
                \/ /\ pc[w] \in {"update_completed", "update_failed"}
                   /\ pc'[w] = "for_job"
                   /\ idx'[w] = idx[w] + 1
          /\ (pc[w] \in JobStep \cup {"update_completed", "update_failed"}) =>
                pending_jobs'[w] = pending_jobs[w]
      ]_vars

\* C18 witness: the second job of a batch is being handled, the first (older)
\* one has had its terminal status write
C18_Witness ==
    \E w \in Workers :
        /\ pc[w] = "check_file" /\ idx[w] = 2
        /\ pending_jobs[w][1].created_at < pending_jobs[w][2].created_at
        /\ jobs[pending_jobs[w][1].id].status \in Terminal
        /\ jobs[pending_jobs[w][2].id].status = "running"

\* C19: with one worker, a finite set of pending transcribe jobs, a store
\* whose operations all succeed and an engine call that always returns or
\* raises, every pending transcribe job eventually is completed or failed and
\* stays so, also when more jobs are pending than one query returns.
C19_EveryJobFinishes ==
    <>[](\A j \in JobIds :
            jobs[j].job_type = "transcribe" => jobs[j].status \in Terminal)

\* C19 witness: more transcribe jobs than the query limit, all of them
\* completed or failed, some of each
C19_Witness ==
    /\ Cardinality({ j \in JobIds : jobs[j].job_type = "transcribe" }) > Limit
    /\ \A j \in JobIds : jobs[j].job_type = "transcribe" => jobs[j].status \in Terminal
    /\ \E j \in JobIds : jobs[j].status = "completed"
    /\ \E j \in JobIds : jobs[j].status = "failed"
    /\ \A w \in Workers : pc[w] = "sleep_idle"

\* C20: with two workers and a store whose operations all succeed, once the
\* stored status of a job is completed or failed, no step of either worker
\* changes it again.
C20_TerminalIsFinalForTwo ==
    [][ \A j \in JobIds :
          jobs[j].status \in Terminal => jobs'[j].status = jobs[j].status ]_vars

====
